---- MODULE Spec2Model ----
(***************************************************************************)
(* A model of the ECH codec of hellais/ech:                                *)
(*   parseECHConfigList, generateOuterECHExt, validDNSName  (src/ech.go)   *)
(*   parseHttpsRecord                                       (src/main.go)  *)
(*                                                                         *)
(* Bytes are the integers 0..255.  A byte sequence is a TLA+ sequence; the *)
(* Go index i of a slice is the TLA+ index i+1.  A Go slice of the input   *)
(* is the record [lo, hi] of its half-open range of offsets in the input,  *)
(* so that aliasing and bounds are visible.  Every loop iteration of a     *)
(* function is one action.                                                 *)
(***************************************************************************)
EXTENDS Integers, Sequences, FiniteSets, TLC

VARIABLES
  fn,          \* the function being run
  pc,          \* its position
  data,        \* the input bytes (parameter data of both decoders)
  s,           \* parseECHConfigList: the cryptobyte.String cursor s
  ec,          \* parseECHConfigList: the local ec of the loop body
  configs,     \* parseECHConfigList: the local configs
  skipped,     \* parseECHConfigList: history of the raw slices of skipped entries
  idx,         \* parseHttpsRecord: the cursor idx
  record,      \* parseHttpsRecord: the local record
  orig,        \* parseHttpsRecord: the record its input was built from, if any
  args,        \* generateOuterECHExt: its parameters
  b,           \* generateOuterECHExt: the cryptobyte.Builder b
  name,        \* validDNSName: the parameter name, as bytes
  labels,      \* validDNSName: the local labels
  li,          \* validDNSName: the index of the label of the range loop
  ri,          \* validDNSName: the byte offset i of the range over the label
  ret,         \* the returned value
  err,         \* the returned error ("nil" when none)
  oob          \* TRUE once an index or slice expression went out of range

vars == <<fn, pc, data, s, ec, configs, skipped, idx, record, orig,
          args, b,
          name, labels, li, ri, ret, err, oob>>

echVars   == <<s, ec, configs, skipped>>
httpsVars == <<idx, record, orig>>
outerVars == <<args, b>>
dnsVars   == <<name, labels, li, ri>>

(***************************************************************************)
(* Integer widths and byte order                                           *)
(***************************************************************************)
Uint8Mod  == 256
Uint16Mod == 65536

ToUint16(x) == x % Uint16Mod

\* mutant of BE16: the two bytes taken least significant first
BE16_LittleEndian(hi, lo) == lo * Uint8Mod + hi

\* uint16(hi)<<8 | uint16(lo)
BE16(hi, lo) == hi * Uint8Mod + lo

\* the two bytes of a 16-bit value, most significant first
PutU16(v) == << (v \div Uint8Mod) % Uint8Mod, v % Uint8Mod >>

\* data[i] in Go; 0 when i is out of range (the access itself is flagged apart)
At(d, i) == IF i >= 0 /\ i < Len(d) THEN d[i + 1] ELSE 0

\* the bytes of the slice sl of d
Bytes(d, sl) == SubSeq(d, sl.lo + 1, sl.hi)

SliceLen(sl) == sl.hi - sl.lo

Pad(n, v) == [i \in 1..n |-> v]

RECURSIVE Concat(_)
Concat(ss) == IF ss = <<>> THEN <<>> ELSE Head(ss) \o Concat(Tail(ss))

\* all sequences over S of length 0..n
SeqsUpTo(S, n) == UNION { [1..k -> S] : k \in 0..n }

(***************************************************************************)
(* cryptobyte.String, as parseECHConfigList uses it.  A String is a slice  *)
(* [lo, hi] of data.  A read that fails leaves the String where it was.    *)
(***************************************************************************)
ExtensionEncryptedClientHello == 65037   \* 0xfe0d

\* String.read's guard: len(*s) >= n
StrHas(str, n) == SliceLen(str) >= n

\* String.read(n): v := (*s)[:n]; *s = (*s)[n:]
StrRead(str, n) ==
  IF StrHas(str, n)
    THEN [ok |-> TRUE,
          v |-> [lo |-> str.lo, hi |-> str.lo + n],
          rest |-> [lo |-> str.lo + n, hi |-> str.hi],
          oob |-> str.lo + n > str.hi]
    ELSE [ok |-> FALSE, v |-> [lo |-> str.lo, hi |-> str.lo], rest |-> str,
          oob |-> FALSE]

ReadUint8(d, str) ==
  LET r == StrRead(str, 1)
  IN  [ok |-> r.ok, val |-> At(d, r.v.lo), rest |-> r.rest, oob |-> r.oob]

ReadUint16(d, str) ==
  LET r == StrRead(str, 2)
  IN  [ok |-> r.ok, val |-> BE16(At(d, r.v.lo), At(d, r.v.lo + 1)),
       rest |-> r.rest, oob |-> r.oob]

\* String.Skip(n): the result is dropped by the caller
Skip(str, n) == StrRead(str, n)

ReadUint8LengthPrefixed(d, str) ==
  LET l == ReadUint8(d, str)
      r == StrRead(l.rest, l.val)
  IN  IF ~l.ok
        THEN [ok |-> FALSE, v |-> l.rest, rest |-> l.rest, oob |-> l.oob]
        ELSE [ok |-> r.ok, v |-> r.v, rest |-> r.rest, oob |-> l.oob \/ r.oob]

ReadUint16LengthPrefixed(d, str) ==
  LET l == ReadUint16(d, str)
      r == StrRead(l.rest, l.val)
  IN  IF ~l.ok
        THEN [ok |-> FALSE, v |-> l.rest, rest |-> l.rest, oob |-> l.oob]
        ELSE [ok |-> r.ok, v |-> r.v, rest |-> r.rest, oob |-> l.oob \/ r.oob]

(***************************************************************************)
(* parseECHConfigList                                                      *)
(***************************************************************************)
\* for !cipherSuites.Empty() { KDFID, AEADID }
RECURSIVE ReadCipherSuites(_, _)
ReadCipherSuites(d, str) ==
  IF SliceLen(str) = 0
    THEN [ok |-> TRUE, list |-> <<>>, oob |-> FALSE]
    ELSE LET k == ReadUint16(d, str)
             a == ReadUint16(d, k.rest)
             more == ReadCipherSuites(d, a.rest)
         IN  IF ~k.ok THEN [ok |-> FALSE, list |-> <<>>, oob |-> k.oob]
             ELSE IF ~a.ok
               THEN [ok |-> FALSE, list |-> <<>>, oob |-> k.oob \/ a.oob]
             ELSE [ok |-> more.ok,
                   list |-> <<[KDFID |-> k.val, AEADID |-> a.val]>> \o more.list,
                   oob |-> k.oob \/ a.oob \/ more.oob]

\* for !extensions.Empty() { Type, Data }
RECURSIVE ReadExtensions(_, _)
ReadExtensions(d, str) ==
  IF SliceLen(str) = 0
    THEN [ok |-> TRUE, list |-> <<>>, oob |-> FALSE]
    ELSE LET t == ReadUint16(d, str)
             x == ReadUint16LengthPrefixed(d, t.rest)
             more == ReadExtensions(d, x.rest)
         IN  IF ~t.ok THEN [ok |-> FALSE, list |-> <<>>, oob |-> t.oob]
             ELSE IF ~x.ok
               THEN [ok |-> FALSE, list |-> <<>>, oob |-> t.oob \/ x.oob]
             ELSE [ok |-> more.ok,
                   list |-> <<[Type |-> t.val, Data |-> x.v]>> \o more.list,
                   oob |-> t.oob \/ x.oob \/ more.oob]

\* line 51: length != uint16(len(data)-2)
ListLengthMatches(length, n) == length = ToUint16(n - 2)

\* line 64: len(ec.raw) < int(ec.Length)+4
EntryFits(raw, entryLength) == SliceLen(raw) >= entryLength + 4

\* line 67: ec.raw[:ec.Length+4], the sum taken in uint16
RawLen(entryLength) == ToUint16(entryLength + 4)

\* var ec echConfig
NoConfig ==
  [raw |-> [lo |-> 0, hi |-> 0], Version |-> 0, Length |-> 0, ConfigID |-> 0,
   KemID |-> 0, PublicKey |-> [lo |-> 0, hi |-> 0],
   SymmetricCipherSuite |-> <<>>, MaxNameLength |-> 0,
   PublicName |-> [lo |-> 0, hi |-> 0], Extensions |-> <<>>]

\* return nil, errMalformedECHConfig
Malformed ==
  /\ pc' = "done"
  /\ ret' = <<>>
  /\ err' = "errMalformedECHConfig"

\* lines 45-53: read the list's length prefix and compare it
ReadListLength ==
  /\ fn = "parseECHConfigList" /\ pc = "start"
  /\ LET r == ReadUint16(data, s)
     IN  /\ oob' = (oob \/ r.oob)
         /\ s' = r.rest
         /\ IF r.ok /\ ListLengthMatches(r.val, Len(data))
              THEN pc' = "loop" /\ UNCHANGED <<ret, err>>
              ELSE Malformed
  /\ UNCHANGED <<fn, data, ec, configs, skipped, httpsVars, outerVars, dnsVars>>

\* lines 55-71: the loop test, the entry's header, and the skip of an
\* entry of another version
ParseEntryHeader ==
  /\ fn = "parseECHConfigList" /\ pc = "loop" /\ SliceLen(s) > 0
  /\ LET raw0 == s
         rv   == ReadUint16(data, s)
         rl   == ReadUint16(data, rv.rest)
         n    == RawLen(rl.val)
         raw  == [lo |-> raw0.lo, hi |-> raw0.lo + n]
         sk   == Skip(rl.rest, rl.val)
     IN  IF ~(rv.ok /\ rl.ok /\ EntryFits(raw0, rl.val))
           THEN /\ Malformed
                /\ s' = rl.rest
                /\ oob' = (oob \/ rv.oob \/ rl.oob)
                /\ UNCHANGED <<ec, skipped>>
         ELSE IF rv.val # ExtensionEncryptedClientHello
           THEN /\ s' = sk.rest
                /\ skipped' = Append(skipped, raw)
                /\ oob' = (oob \/ n > SliceLen(raw0) \/ sk.oob)
                /\ UNCHANGED <<pc, ec, ret, err>>
         ELSE /\ s' = rl.rest
              /\ ec' = [NoConfig EXCEPT !.raw = raw, !.Version = rv.val,
                                        !.Length = rl.val]
              /\ pc' = "key"
              /\ oob' = (oob \/ n > SliceLen(raw0))
              /\ UNCHANGED <<skipped, ret, err>>
  /\ UNCHANGED <<fn, data, configs, httpsVars, outerVars, dnsVars>>

\* lines 72-80: ConfigID, KemID, PublicKey
ReadKey ==
  /\ fn = "parseECHConfigList" /\ pc = "key"
  /\ LET r1 == ReadUint8(data, s)
         r2 == ReadUint16(data, r1.rest)
         r3 == ReadUint16LengthPrefixed(data, r2.rest)
     IN  /\ s' = r3.rest
         /\ oob' = (oob \/ r1.oob \/ r2.oob \/ r3.oob)
         /\ IF r1.ok /\ r2.ok /\ r3.ok
              THEN /\ ec' = [ec EXCEPT !.ConfigID = r1.val, !.KemID = r2.val,
                                       !.PublicKey = r3.v]
                   /\ pc' = "suites"
                   /\ UNCHANGED <<ret, err>>
              ELSE Malformed /\ UNCHANGED ec
  /\ UNCHANGED <<fn, data, configs, skipped, httpsVars, outerVars, dnsVars>>

\* lines 81-94: the cipher suites
ReadSuites ==
  /\ fn = "parseECHConfigList" /\ pc = "suites"
  /\ LET r4 == ReadUint16LengthPrefixed(data, s)
         cs == ReadCipherSuites(data, r4.v)
     IN  /\ s' = r4.rest
         /\ oob' = (oob \/ r4.oob \/ (r4.ok /\ cs.oob))
         /\ IF r4.ok /\ cs.ok
              THEN /\ ec' = [ec EXCEPT !.SymmetricCipherSuite = cs.list]
                   /\ pc' = "name"
                   /\ UNCHANGED <<ret, err>>
              ELSE Malformed /\ UNCHANGED ec
  /\ UNCHANGED <<fn, data, configs, skipped, httpsVars, outerVars, dnsVars>>

\* lines 95-102: MaxNameLength, PublicName
ReadName ==
  /\ fn = "parseECHConfigList" /\ pc = "name"
  /\ LET r5 == ReadUint8(data, s)
         r6 == ReadUint8LengthPrefixed(data, r5.rest)
     IN  /\ s' = r6.rest
         /\ oob' = (oob \/ r5.oob \/ r6.oob)
         /\ IF r5.ok /\ r6.ok
              THEN /\ ec' = [ec EXCEPT !.MaxNameLength = r5.val,
                                       !.PublicName = r6.v]
                   /\ pc' = "exts"
                   /\ UNCHANGED <<ret, err>>
              ELSE Malformed /\ UNCHANGED ec
  /\ UNCHANGED <<fn, data, configs, skipped, httpsVars, outerVars, dnsVars>>

\* lines 103-118: the extensions, and configs = append(configs, ec)
ReadExts ==
  /\ fn = "parseECHConfigList" /\ pc = "exts"
  /\ LET r7 == ReadUint16LengthPrefixed(data, s)
         ex == ReadExtensions(data, r7.v)
     IN  /\ s' = r7.rest
         /\ oob' = (oob \/ r7.oob \/ (r7.ok /\ ex.oob))
         /\ IF r7.ok /\ ex.ok
              THEN /\ ec' = [ec EXCEPT !.Extensions = ex.list]
                   /\ configs' = Append(configs, ec')
                   /\ pc' = "loop"
                   /\ UNCHANGED <<ret, err>>
              ELSE Malformed /\ UNCHANGED <<ec, configs>>
  /\ UNCHANGED <<fn, data, skipped, httpsVars, outerVars, dnsVars>>

\* line 55 (the loop ends) and line 120: return configs, nil
ReturnConfigs ==
  /\ fn = "parseECHConfigList" /\ pc = "loop" /\ SliceLen(s) = 0
  /\ pc' = "done"
  /\ ret' = configs
  /\ err' = "nil"
  /\ UNCHANGED <<fn, data, echVars, httpsVars, outerVars, dnsVars, oob>>

(***************************************************************************)
(* Inputs of parseECHConfigList: hand-built lists, every one-byte change   *)
(* of them, their truncations and extensions, all short byte strings, and  *)
(* a few lists at the 16-bit boundary.                                     *)
(***************************************************************************)
MaxEntries == 2
MaxRaw == 3

OtherVersion == 65034   \* 0xfe0a, a version the decoder does not recognize

\* the contents of one ECHConfig: the layout lines 72-116 read
EncBody(cid, kem, pk, suites, mnl, pname, exts) ==
  <<cid>> \o PutU16(kem) \o PutU16(Len(pk)) \o pk
    \o PutU16(Len(suites)) \o suites
    \o <<mnl>> \o <<Len(pname)>> \o pname
    \o PutU16(Len(exts)) \o exts

\* one entry: version, length, contents (lines 58-61)
EncEntry(ver, body) == PutU16(ver) \o PutU16(Len(body)) \o body

\* the list: 2-byte length, then the entries (lines 47-51)
EncList(es) == LET all == Concat(es) IN PutU16(Len(all)) \o all

BodyMin  == EncBody(1, 32, <<>>, <<>>, 0, <<>>, <<>>)
BodyFull == EncBody(2, 32, <<7>>, <<0, 1, 0, 1>>, 64, <<97>>, <<0, 1, 0, 1, 9>>)

EchEntries ==
  { EncEntry(ExtensionEncryptedClientHello, BodyMin),
    EncEntry(ExtensionEncryptedClientHello, BodyFull),
    EncEntry(OtherVersion, <<>>),
    EncEntry(OtherVersion, <<5, 6>>),
    EncEntry(OtherVersion, BodyMin) }

EchLists == { EncList(es) : es \in SeqsUpTo(EchEntries, MaxEntries) }

\* every change of one byte of l: to one less, one more, 0 or 255
Mutations(l) ==
  UNION { { [l EXCEPT ![i] = v] :
              v \in { 0, 255, (l[i] + 1) % Uint8Mod, (l[i] + 255) % Uint8Mod } } :
          i \in 1..Len(l) }

\* l without its last byte or two, and l with a byte after it
Resized(l) ==
  { SubSeq(l, 1, Len(l) - k) : k \in { j \in 1..2 : j <= Len(l) } }
    \cup { l \o <<v>> : v \in { 0, 254 } }

\* lists whose length reaches or passes the 16-bit boundary
BigBody(pkLen) == EncBody(1, 32, Pad(pkLen, 0), <<>>, 0, <<>>, <<>>)

BigLists ==
  { EncList(<<EncEntry(ExtensionEncryptedClientHello, BigBody(Uint16Mod - 16))>>),
    EncList(<<EncEntry(ExtensionEncryptedClientHello, BigBody(Uint16Mod - 15))>>),
    EncList(<<EncEntry(OtherVersion, Pad(Uint16Mod - 5, 0))>>),
    EncList(<<EncEntry(OtherVersion, Pad(Uint16Mod - 4, 0))>>),
    EncList(<<EncEntry(OtherVersion, Pad(Uint16Mod - 4, 0))>>) \o <<0>> }

EchInputs ==
  EchLists
    \cup UNION { Mutations(l) : l \in EchLists }
    \cup UNION { Resized(l) : l \in EchLists }
    \cup SeqsUpTo({ 0, 1, 254 }, MaxRaw)
    \cup BigLists

NoRecord  == [Priority |-> 0, TargetName |-> <<>>, Params |-> <<>>]
NoArgs    == [id |-> 0, kdfID |-> 0, aeadID |-> 0, encodedKey |-> <<>>,
              payload |-> <<>>]
NoBuilder == [result |-> <<>>, err |-> "nil"]

IdleECH ==
  s = [lo |-> 0, hi |-> 0] /\ ec = NoConfig /\ configs = <<>> /\ skipped = <<>>
IdleHttps == idx = 0 /\ record = NoRecord /\ orig = <<>>
IdleOuter == args = NoArgs /\ b = NoBuilder
IdleDNS   == name = <<>> /\ labels = <<>> /\ li = 0 /\ ri = 0

InitECH ==
  /\ fn = "parseECHConfigList" /\ pc = "start"
  /\ data \in EchInputs
  /\ s = [lo |-> 0, hi |-> Len(data)]
  /\ ec = NoConfig /\ configs = <<>> /\ skipped = <<>>
  /\ ret = <<>> /\ err = "nil" /\ oob = FALSE
  /\ IdleHttps /\ IdleOuter /\ IdleDNS

NextECH ==
  \/ ReadListLength \/ ParseEntryHeader \/ ReadKey \/ ReadSuites
  \/ ReadName \/ ReadExts \/ ReturnConfigs

SpecECH == InitECH /\ [][NextECH]_vars

(***************************************************************************)
(* parseHttpsRecord                                                        *)
(***************************************************************************)
\* line 242: len(data) < 3
TooShort(n) == n < 3

\* line 253: idx < len(data) && data[idx] != 0
NameGoesOn(d, i) == i < Len(d) /\ At(d, i) # 0

\* mutant of HasParamHeader: a header that ends the input is not read
HasParamHeader_Strict(i, n) == i + 4 < n

\* line 263: idx+4 <= len(data)
HasParamHeader(i, n) == i + 4 <= n

\* mutant of ParamFits: a value that ends the input is refused
ParamFits_OffByOne(i, length, n) == i + length < n

\* mutant of ParamFits: the declared length is not checked
ParamFits_Unchecked(i, length, n) == TRUE

\* line 268: idx+length > len(data), negated
ParamFits(i, length, n) == i + length <= n

\* return nil, fmt.Errorf(...)
HttpsError(msg) ==
  /\ pc' = "done"
  /\ ret' = <<>>
  /\ err' = msg

\* lines 242-252: the length check, Priority, idx := 2
HttpsStart ==
  /\ fn = "parseHttpsRecord" /\ pc = "start"
  /\ IF TooShort(Len(data))
       THEN /\ HttpsError("invalid data length")
            /\ UNCHANGED <<idx, record, oob>>
       ELSE /\ record' = [record EXCEPT !.Priority = BE16(At(data, 0), At(data, 1))]
            /\ oob' = (oob \/ Len(data) < 2)
            /\ idx' = 2
            /\ pc' = "name"
            /\ UNCHANGED <<ret, err>>
  /\ UNCHANGED <<fn, data, orig, echVars, outerVars, dnsVars>>

\* lines 253-255: one iteration of the scan for the zero byte
ScanName ==
  /\ fn = "parseHttpsRecord" /\ pc = "name"
  /\ NameGoesOn(data, idx)
  /\ idx' = idx + 1
  /\ oob' = (oob \/ idx >= Len(data))
  /\ UNCHANGED <<fn, pc, data, orig, record, ret, err, echVars, outerVars, dnsVars>>

\* lines 253 (the scan ends) and 256-260: TargetName, and past the zero byte
EndName ==
  /\ fn = "parseHttpsRecord" /\ pc = "name"
  /\ ~NameGoesOn(data, idx)
  /\ IF idx >= Len(data)
       THEN /\ HttpsError("invalid target name in data")
            /\ UNCHANGED <<idx, record, oob>>
       ELSE /\ record' = [record EXCEPT
                            !.TargetName = Bytes(data, [lo |-> 2, hi |-> idx])]
            /\ oob' = (oob \/ idx > Len(data) \/ idx < 2)
            /\ idx' = idx + 1
            /\ pc' = "params"
            /\ UNCHANGED <<ret, err>>
  /\ UNCHANGED <<fn, data, orig, echVars, outerVars, dnsVars>>

\* lines 263-275: one iteration of the SvcParams loop
ReadParam ==
  /\ fn = "parseHttpsRecord" /\ pc = "params"
  /\ HasParamHeader(idx, Len(data))
  /\ LET key    == BE16(At(data, idx), At(data, idx + 1))
         length == BE16(At(data, idx + 2), At(data, idx + 3))
         value  == [lo |-> idx + 4, hi |-> idx + 4 + length]
     IN  IF ~ParamFits(idx + 4, length, Len(data))
           THEN /\ HttpsError("invalid parameter length")
                /\ idx' = idx + 4
                /\ oob' = (oob \/ idx + 3 >= Len(data))
                /\ UNCHANGED record
           ELSE /\ record' = [record EXCEPT
                                !.Params = Append(@, [Key |-> key, Value |-> value])]
                /\ idx' = idx + 4 + length
                /\ oob' = (oob \/ idx + 3 >= Len(data) \/ value.hi > Len(data))
                /\ UNCHANGED <<pc, ret, err>>
  /\ UNCHANGED <<fn, data, orig, echVars, outerVars, dnsVars>>

\* lines 263 (the loop ends) and 277: return record, nil
HttpsReturn ==
  /\ fn = "parseHttpsRecord" /\ pc = "params"
  /\ ~HasParamHeader(idx, Len(data))
  /\ pc' = "done"
  /\ ret' = <<record>>
  /\ err' = "nil"
  /\ UNCHANGED <<fn, data, orig, idx, record, oob, echVars, outerVars, dnsVars>>

(***************************************************************************)
(* Inputs of parseHttpsRecord: all short byte strings, and the RDATA built *)
(* by hand from a record (orig), whose parameter values are byte strings.  *)
(***************************************************************************)
MaxHttpsRaw == 7
MaxParams == 2
MaxNameLen == 2

\* priority(2) ++ name ++ 00 ++ (key(2) ++ len(value)(2) ++ value)*
RECURSIVE EncParams(_)
EncParams(ps) ==
  IF ps = <<>> THEN <<>>
  ELSE PutU16(Head(ps).Key) \o PutU16(Len(Head(ps).Value)) \o Head(ps).Value
         \o EncParams(Tail(ps))

EncHttps(r) == PutU16(r.Priority) \o r.TargetName \o <<0>> \o EncParams(r.Params)

HttpsParams ==
  [Key : { 1, 5 }, Value : { <<>>, <<0>>, <<9, 0>>, <<0, 1, 0, 0>> }]

HttpsRecords ==
  [Priority : { 0, 2, 258, Uint16Mod - 1 },
   TargetName : SeqsUpTo({ 1, 97 }, MaxNameLen),
   Params : SeqsUpTo(HttpsParams, MaxParams)]

\* records with a value of 256 and of 65535 bytes
BigHttpsRecords ==
  { [Priority |-> 1, TargetName |-> <<97>>, Params |-> ps] :
      ps \in { << [Key |-> 5, Value |-> Pad(Uint8Mod, 3)] >>,
               << [Key |-> 5, Value |-> Pad(Uint16Mod - 1, 3)] >>,
               << [Key |-> 5, Value |-> Pad(Uint16Mod - 1, 0)],
                  [Key |-> 5, Value |-> <<4>>] >> } }

\* an RDATA of two params, for one-byte changes and changes of length
TwoParamRdata ==
  EncHttps([Priority |-> 1, TargetName |-> <<97>>,
            Params |-> << [Key |-> 1, Value |-> <<9, 0>>],
                          [Key |-> 5, Value |-> <<0, 1, 0, 0>>] >>])

InitHttps ==
  /\ fn = "parseHttpsRecord" /\ pc = "start"
  /\ \/ /\ data \in SeqsUpTo({ 0, 1, 2 }, MaxHttpsRaw)
                   \cup Mutations(TwoParamRdata) \cup Resized(TwoParamRdata)
        /\ orig = <<>>
     \/ \E r \in HttpsRecords \cup BigHttpsRecords :
          /\ data = EncHttps(r)
          /\ orig = <<r>>
  /\ idx = 0 /\ record = NoRecord
  /\ ret = <<>> /\ err = "nil" /\ oob = FALSE
  /\ IdleECH /\ IdleOuter /\ IdleDNS

NextHttps == HttpsStart \/ ScanName \/ EndName \/ ReadParam \/ HttpsReturn

SpecHttps == InitHttps /\ [][NextHttps]_vars

\* both decoders
InitDecoders == InitECH \/ InitHttps
NextDecoders == NextECH \/ NextHttps
SpecDecoders == InitDecoders /\ [][NextDecoders]_vars

(***************************************************************************)
(* generateOuterECHExt, and cryptobyte.Builder as it uses it.  The Builder *)
(* is its result and its sticky error; once the error is set every add is  *)
(* dropped and Bytes returns the error.                                    *)
(***************************************************************************)
\* Builder.add(bytes...)
BuilderAdd(bld, bytes) ==
  IF bld.err # "nil" THEN bld ELSE [bld EXCEPT !.result = @ \o bytes]

\* mutant of FitsPrefix: the length is held against one byte, whatever lenLen
FitsPrefix_OneByte(length, lenLen) == length \div Uint8Mod = 0

\* flushChild: what is left of the child's length after its lenLen bytes
\* were written must be 0
FitsPrefix(length, lenLen) ==
  IF lenLen = 1 THEN length \div Uint8Mod = 0 ELSE length \div Uint16Mod = 0

\* Builder.AddUint16LengthPrefixed(func(b) { b.AddBytes(content) })
AddUint16LengthPrefixed(bld, content) ==
  IF bld.err # "nil" THEN bld
  ELSE IF ~FitsPrefix(Len(content), 2)
    THEN [bld EXCEPT !.err = "cryptobyte: pending child length exceeds 2-byte length prefix"]
  ELSE [bld EXCEPT !.result = @ \o PutU16(Len(content)) \o content]

\* line 125: b.AddUint8(0)
AddOuter ==
  /\ fn = "generateOuterECHExt" /\ pc = "start"
  /\ b' = BuilderAdd(b, <<0>>)
  /\ pc' = "kdf"
  /\ UNCHANGED <<fn, data, args, ret, err, oob, echVars, httpsVars, dnsVars>>

\* line 126: b.AddUint16(kdfID)
AddKdf ==
  /\ fn = "generateOuterECHExt" /\ pc = "kdf"
  /\ b' = BuilderAdd(b, PutU16(args.kdfID))
  /\ pc' = "aead"
  /\ UNCHANGED <<fn, data, args, ret, err, oob, echVars, httpsVars, dnsVars>>

\* line 127: b.AddUint16(aeadID)
AddAead ==
  /\ fn = "generateOuterECHExt" /\ pc = "aead"
  /\ b' = BuilderAdd(b, PutU16(args.aeadID))
  /\ pc' = "id"
  /\ UNCHANGED <<fn, data, args, ret, err, oob, echVars, httpsVars, dnsVars>>

\* line 128: b.AddUint8(id)
AddId ==
  /\ fn = "generateOuterECHExt" /\ pc = "id"
  /\ b' = BuilderAdd(b, <<args.id>>)
  /\ pc' = "key"
  /\ UNCHANGED <<fn, data, args, ret, err, oob, echVars, httpsVars, dnsVars>>

\* line 129: encodedKey, length-prefixed
AddKey ==
  /\ fn = "generateOuterECHExt" /\ pc = "key"
  /\ b' = AddUint16LengthPrefixed(b, args.encodedKey)
  /\ pc' = "payload"
  /\ UNCHANGED <<fn, data, args, ret, err, oob, echVars, httpsVars, dnsVars>>

\* line 130: payload, length-prefixed
AddPayload ==
  /\ fn = "generateOuterECHExt" /\ pc = "payload"
  /\ b' = AddUint16LengthPrefixed(b, args.payload)
  /\ pc' = "bytes"
  /\ UNCHANGED <<fn, data, args, ret, err, oob, echVars, httpsVars, dnsVars>>

\* line 131: return b.Bytes()
ReturnBytes ==
  /\ fn = "generateOuterECHExt" /\ pc = "bytes"
  /\ ret' = IF b.err # "nil" THEN <<>> ELSE b.result
  /\ err' = b.err
  /\ pc' = "done"
  /\ UNCHANGED <<fn, data, args, b, oob, echVars, httpsVars, dnsVars>>

MaxBlob == 2

\* byte strings for encodedKey and payload: the short ones, and those of 3,
\* 5 and 256 bytes
Blobs ==
  SeqsUpTo({ 0, 9 }, MaxBlob) \cup { <<1, 2, 3>>, <<1, 2, 3, 4, 5>>, Pad(Uint8Mod, 7) }

\* byte strings at the 16-bit boundary
BigBlobs == { <<7>>, Pad(Uint16Mod - 1, 7), Pad(Uint16Mod, 7), Pad(Uint16Mod + 2, 7) }

InitOuter ==
  /\ fn = "generateOuterECHExt" /\ pc = "start"
  /\ \/ args \in [id : { 0, 7, 255 }, kdfID : { 1, 258 }, aeadID : { 1, 513 },
                  encodedKey : Blobs, payload : Blobs]
     \/ args \in [id : { 7 }, kdfID : { 1 }, aeadID : { Uint16Mod - 1 },
                  encodedKey : BigBlobs, payload : BigBlobs]
  /\ b = NoBuilder
  /\ data = <<>>
  /\ ret = <<>> /\ err = "nil" /\ oob = FALSE
  /\ IdleECH /\ IdleHttps /\ IdleDNS

NextOuter ==
  AddOuter \/ AddKdf \/ AddAead \/ AddId \/ AddKey \/ AddPayload \/ ReturnBytes

SpecOuter == InitOuter /\ [][NextOuter]_vars

(***************************************************************************)
(* validDNSName.  The name is its bytes; range over a label decodes UTF-8  *)
(* and yields each rune with the byte offset it starts at.                 *)
(***************************************************************************)
MaxDNSNameLen == 253

Dot == 46
Hyphen == 45
RuneError == 65533

\* strings.Split(str, sep) for a one-byte sep
RECURSIVE Split(_, _)
Split(str, sep) ==
  IF \A i \in 1..Len(str) : str[i] # sep THEN <<str>>
  ELSE LET i == CHOOSE k \in 1..Len(str) :
                  str[k] = sep /\ \A j \in 1..(k - 1) : str[j] # sep
       IN  <<SubSeq(str, 1, i - 1)>> \o Split(SubSeq(str, i + 1, Len(str)), sep)

\* a UTF-8 continuation byte
IsCont(v) == v >= 128 /\ v <= 191

\* the rune at byte offset i of l and its width, as range over a string
\* decodes it: an invalid or short sequence is U+FFFD of width 1
DecodeRune(l, i) ==
  LET b0 == At(l, i)
      b1 == At(l, i + 1)
      b2 == At(l, i + 2)
      b3 == At(l, i + 3)
      lo1 == IF b0 = 224 THEN 160 ELSE IF b0 = 240 THEN 144 ELSE 128
      hi1 == IF b0 = 237 THEN 159 ELSE IF b0 = 244 THEN 143 ELSE 191
  IN  IF b0 < 128 THEN [r |-> b0, w |-> 1]
      ELSE IF b0 >= 194 /\ b0 <= 223 /\ IsCont(b1)
        THEN [r |-> (b0 - 192) * 64 + (b1 - 128), w |-> 2]
      ELSE IF b0 >= 224 /\ b0 <= 239 /\ b1 >= lo1 /\ b1 <= hi1 /\ IsCont(b2)
        THEN [r |-> (b0 - 224) * 4096 + (b1 - 128) * 64 + (b2 - 128), w |-> 3]
      ELSE IF b0 >= 240 /\ b0 <= 244 /\ b1 >= lo1 /\ b1 <= hi1 /\ IsCont(b2)
              /\ IsCont(b3)
        THEN [r |-> (b0 - 240) * 262144 + (b1 - 128) * 4096 + (b2 - 128) * 64
                      + (b3 - 128),
              w |-> 4]
      ELSE [r |-> RuneError, w |-> 1]

\* line 155, negated: r is a digit, a letter or the hyphen
IsNameRune(r) ==
  ~((r < 48 \/ r > 57) /\ (r < 97 \/ r > 122) /\ (r < 65 \/ r > 90) /\ r # Hyphen)

\* line 152: r == '-' && (i == 0 || i == labelLen-1)
EdgeHyphen(r, i, labelLen) == r = Hyphen /\ (i = 0 \/ i = labelLen - 1)

\* line 139: len(name) > 253
NameTooLong(n) == n > MaxDNSNameLen

\* mutant of TooFewLabels: a single label passes
TooFewLabels_AllowsOne(n) == n < 1

\* line 143: len(labels) <= 1
TooFewLabels(n) == n <= 1

\* lines 139-145: the length check, the split, the count of labels
DNSStart ==
  /\ fn = "validDNSName" /\ pc = "start"
  /\ IF NameTooLong(Len(name))
       THEN /\ pc' = "done" /\ ret' = FALSE
            /\ UNCHANGED <<labels, li>>
       ELSE /\ labels' = Split(name, Dot)
            /\ IF TooFewLabels(Len(labels'))
                 THEN pc' = "done" /\ ret' = FALSE /\ UNCHANGED li
                 ELSE pc' = "labels" /\ li' = 1 /\ UNCHANGED ret
  /\ UNCHANGED <<fn, data, name, ri, err, oob, echVars, httpsVars, outerVars>>

\* lines 146-150: the next label of for _, l := range labels; an empty one
\* ends the check
LabelStart ==
  /\ fn = "validDNSName" /\ pc = "labels" /\ li <= Len(labels)
  /\ IF Len(labels[li]) = 0
       THEN pc' = "done" /\ ret' = FALSE /\ UNCHANGED ri
       ELSE pc' = "runes" /\ ri' = 0 /\ UNCHANGED ret
  /\ UNCHANGED <<fn, data, name, labels, li, err, oob, echVars, httpsVars,
                 outerVars>>

\* lines 151-158: one rune of for i, r := range l
CheckRune ==
  /\ fn = "validDNSName" /\ pc = "runes" /\ ri < Len(labels[li])
  /\ LET d == DecodeRune(labels[li], ri)
     IN  IF EdgeHyphen(d.r, ri, Len(labels[li])) \/ ~IsNameRune(d.r)
           THEN pc' = "done" /\ ret' = FALSE /\ UNCHANGED ri
           ELSE ri' = ri + d.w /\ UNCHANGED <<pc, ret>>
  /\ UNCHANGED <<fn, data, name, labels, li, err, oob, echVars, httpsVars,
                 outerVars>>

\* line 151 (the runes of the label end): on to the next label
LabelEnd ==
  /\ fn = "validDNSName" /\ pc = "runes" /\ ri >= Len(labels[li])
  /\ li' = li + 1
  /\ pc' = "labels"
  /\ UNCHANGED <<fn, data, name, labels, ri, ret, err, oob, echVars, httpsVars,
                 outerVars>>

\* line 146 (the loop ends) and line 160: return true
DNSReturnTrue ==
  /\ fn = "validDNSName" /\ pc = "labels" /\ li > Len(labels)
  /\ pc' = "done"
  /\ ret' = TRUE
  /\ UNCHANGED <<fn, data, name, labels, li, ri, err, oob, echVars, httpsVars,
                 outerVars>>

MaxName == 5

BadExample   == <<45, 98, 97, 100, 46, 101, 120, 97, 109, 112, 108, 101>>
NoDotExample == <<110, 111, 100, 111, 116>>
GoodExample  ==
  <<103, 111, 111, 100, 45, 110, 97, 109, 101, 46, 101, 120, 97, 109, 112, 108, 101>>

\* bytes at the edges of the ranges of line 155, and bytes that are not ASCII
EdgeBytes ==
  { 0, 44, 47, 48, 57, 58, 64, 65, 90, 91, 96, 97, 122, 123, 127, 128, 169, 195, 255 }

\* names with one edge byte, or the two bytes of U+00E9, in each place of a label
ProbeNames ==
  UNION { { c \o <<Dot, 97>>, <<97, Dot>> \o c, <<97>> \o c \o <<Dot, 98>>,
            <<97, Dot, 98>> \o c \o <<99>>, <<97>> \o c }
          : c \in { <<v>> : v \in EdgeBytes } \cup { <<195, 169>>, <<226, 130, 172>> } }

\* names of 252 to 254 bytes, with and without a second label, and one of 254
\* bytes that is 253 characters
LongNames ==
  UNION { { <<97, Dot>> \o Pad(MaxDNSNameLen + k - 2, 97),
            Pad(MaxDNSNameLen + k, 97),
            Pad(MaxDNSNameLen + k - 2, 97) \o <<Dot, 97>> }
          : k \in { -1, 0, 1 } }
    \cup { <<97, Dot, 195, 169>> \o Pad(MaxDNSNameLen - 3, 97) }

InitDNS ==
  /\ fn = "validDNSName" /\ pc = "start"
  /\ name \in SeqsUpTo({ 97, Hyphen, Dot, 95, 195 }, MaxName)
                \cup { BadExample, NoDotExample, GoodExample }
                \cup ProbeNames \cup LongNames
  /\ labels = <<>> /\ li = 0 /\ ri = 0
  /\ data = <<>>
  /\ ret = FALSE /\ err = "nil" /\ oob = FALSE
  /\ IdleECH /\ IdleHttps /\ IdleOuter

NextDNS == DNSStart \/ LabelStart \/ CheckRune \/ LabelEnd \/ DNSReturnTrue

SpecDNS == InitDNS /\ [][NextDNS]_vars

\* any of the four functions, on any of its inputs
Init == InitECH \/ InitHttps \/ InitOuter \/ InitDNS
Next == NextECH \/ NextHttps \/ NextOuter \/ NextDNS
Spec == Init /\ [][Next]_vars

(***************************************************************************)
(* Properties of parseECHConfigList                                        *)
(***************************************************************************)
EchDone == fn = "parseECHConfigList" /\ pc = "done"
EchAccepted == EchDone /\ err = "nil"

\* the list's 2-byte prefix states exactly the number of bytes after it
PrefixExact(d) == Len(d) >= 2 /\ d[1] * 256 + d[2] = Len(d) - 2

\* C1: whenever the input is shorter than 2 bytes or its 2-byte big-endian
\* prefix differs from the number of bytes that follow it, the decoder
\* returns the malformed-list error and no list.
C1_StrictListLength ==
  (EchDone /\ ~PrefixExact(data)) => (err = "errMalformedECHConfig" /\ ret = <<>>)

\* where the fields of a returned config end in the input
BodyEnd(c) ==
  IF c.Extensions = <<>> THEN c.PublicName.hi + 2
  ELSE c.Extensions[Len(c.Extensions)].Data.hi

\* C2: every returned config's fields lie inside the region of entryLength
\* bytes that follows its 4-byte header; a field that passes the end of that
\* region fails the decode.
C2_FieldsInsideEntry ==
  EchAccepted =>
    \A i \in 1..Len(ret) : BodyEnd(ret[i]) <= ret[i].raw.lo + 4 + ret[i].Length

\* the entries of the list as their headers frame them: from offset off, each
\* entry is its 4-byte header and the entryLength bytes after it
RECURSIVE Frames(_, _)
Frames(d, off) ==
  IF off + 4 > Len(d) THEN <<>>
  ELSE LET ver == d[off + 1] * 256 + d[off + 2]
           len == d[off + 3] * 256 + d[off + 4]
       IN  IF off + 4 + len > Len(d) THEN <<>>
           ELSE <<[lo |-> off, hi |-> off + 4 + len, ver |-> ver]>>
                  \o Frames(d, off + 4 + len)

\* the starts of the entries of the recognized version, in order
RecognizedStarts(d) ==
  LET fs == Frames(d, 2)
      F[i \in 0..Len(fs)] ==
        IF i = 0 THEN <<>>
        ELSE IF fs[i].ver = 65037 THEN Append(F[i - 1], fs[i].lo) ELSE F[i - 1]
  IN  F[Len(fs)]

Disjoint(a, c) == a.hi <= c.lo \/ c.hi <= a.lo

\* C3: an accepted list decodes to exactly its entries of version 0xfe0d, in
\* order; an entry of another version is skipped whole, and none of its bytes
\* is part of a returned config.
C3_SkipUnrecognized ==
  EchAccepted =>
    /\ \A i \in 1..Len(ret) : ret[i].Version = 65037
    /\ [i \in 1..Len(ret) |-> ret[i].raw.lo] = RecognizedStarts(data)
    /\ \A k \in 1..Len(skipped) : \A i \in 1..Len(ret) :
         Disjoint(skipped[k], ret[i].raw)

\* C4: every returned config's raw is entryLength + 4 bytes long and starts
\* at the entry's version field.
C4_RawLength ==
  EchAccepted =>
    \A i \in 1..Len(ret) :
      /\ SliceLen(ret[i].raw) = ret[i].Length + 4
      /\ At(data, ret[i].raw.lo) * 256 + At(data, ret[i].raw.lo + 1) = ret[i].Version
      /\ At(data, ret[i].raw.lo + 2) * 256 + At(data, ret[i].raw.lo + 3) = ret[i].Length

(***************************************************************************)
(* Properties of parseHttpsRecord                                          *)
(***************************************************************************)
HttpsDone == fn = "parseHttpsRecord" /\ pc = "done"

\* the returned record, its values as bytes
RetRecord ==
  [Priority |-> ret[1].Priority,
   TargetName |-> ret[1].TargetName,
   Params |-> [i \in 1..Len(ret[1].Params) |->
                 [Key |-> ret[1].Params[i].Key,
                  Value |-> Bytes(data, ret[1].Params[i].Value)]]]

ExampleRdata == <<0, 2, 0, 0>>

\* C5 as stated: RDATA 00 02 00 00 decodes to priority 0, an empty name and
\* no params.
C5_ExampleAsStated ==
  (HttpsDone /\ data = ExampleRdata) =>
    /\ err = "nil"
    /\ ret = <<[Priority |-> 0, TargetName |-> <<>>, Params |-> <<>>]>>

\* C5 amended: RDATA 00 02 00 00 decodes to priority 2 (the big-endian value
\* of 00 02), an empty name and no params.
C5_Example ==
  (HttpsDone /\ data = ExampleRdata) =>
    /\ err = "nil"
    /\ ret = <<[Priority |-> 2, TargetName |-> <<>>, Params |-> <<>>]>>

C5_Witness == HttpsDone /\ data = ExampleRdata /\ err = "nil"

\* C6: the RDATA built from a record (a name without a zero byte, values of
\* at most 65535 bytes) decodes to that record: the same priority, name and
\* params, byte for byte, in order, duplicates kept.
C6_RoundTrip ==
  (HttpsDone /\ orig # <<>>) =>
    /\ err = "nil"
    /\ Len(ret) = 1
    /\ RetRecord = orig[1]

C6_Witness ==
  /\ HttpsDone /\ orig # <<>> /\ err = "nil"
  /\ Len(orig[1].Params) = 2
  /\ orig[1].Params[1].Key = orig[1].Params[2].Key
  /\ Len(ret[1].Params) = 2

\* the offset of the first zero byte at offset 2 or later (Len(d) if none)
RECURSIVE FirstZero(_, _)
FirstZero(d, i) ==
  IF i >= Len(d) \/ d[i + 1] = 0 THEN i ELSE FirstZero(d, i + 1)

\* some parameter header, read in sequence from offset i, declares a length
\* that reaches past the end of the input
RECURSIVE ParamOverrun(_, _)
ParamOverrun(d, i) ==
  IF Len(d) - i < 4 THEN FALSE
  ELSE LET len == d[i + 3] * 256 + d[i + 4]
       IN  IF len > Len(d) - (i + 4) THEN TRUE
           ELSE ParamOverrun(d, i + 4 + len)

HttpsMustFail(d) ==
  \/ Len(d) < 3
  \/ FirstZero(d, 2) >= Len(d)
  \/ ParamOverrun(d, FirstZero(d, 2) + 1)

\* C7: the decoder fails, with a nil record, exactly when the input has
\* fewer than 3 bytes, or no zero byte at offset 2 or later, or a parameter
\* header whose length reaches past the end; otherwise it succeeds, with
\* fewer than 4 bytes left unread.
C7_ErrorsExactly ==
  HttpsDone =>
    /\ (err # "nil") = HttpsMustFail(data)
    /\ err # "nil" => ret = <<>>
    /\ err = "nil" => (Len(ret) = 1 /\ Len(data) - idx < 4)

C7_Witness ==
  /\ HttpsDone /\ err = "invalid parameter length" /\ ret = <<>>
  /\ Len(record.Params) >= 1

(***************************************************************************)
(* Bounds safety of both decoders                                          *)
(***************************************************************************)
InInput(sl) == 0 <= sl.lo /\ sl.lo <= sl.hi /\ sl.hi <= Len(data)

ConfigInInput(c) ==
  /\ InInput(c.raw) /\ InInput(c.PublicKey) /\ InInput(c.PublicName)
  /\ \A j \in 1..Len(c.Extensions) : InInput(c.Extensions[j].Data)

\* C9: in both decoders no index or slice expression leaves the input: the
\* cursor stays within 0..len(data), every slice held or returned lies
\* inside the input, and no out-of-range access happens.
C9_NoOutOfRange ==
  /\ ~oob
  /\ fn = "parseECHConfigList" =>
       /\ InInput(s)
       /\ ConfigInInput(ec)
       /\ \A i \in 1..Len(configs) : ConfigInInput(configs[i])
       /\ \A i \in 1..Len(ret) : ConfigInInput(ret[i])
  /\ fn = "parseHttpsRecord" =>
       /\ 0 <= idx /\ idx <= Len(data)
       /\ \A i \in 1..Len(record.Params) : InInput(record.Params[i].Value)

\* a declared length larger than what remains was met, and answered by the
\* error return
C9_Witness ==
  /\ HttpsDone /\ err = "invalid parameter length"
  /\ idx + At(data, idx - 2) * 256 + At(data, idx - 1) > Len(data)

(***************************************************************************)
(* Properties of generateOuterECHExt                                       *)
(***************************************************************************)
OuterDone == fn = "generateOuterECHExt" /\ pc = "done"

\* the layout of the outer extension, byte by byte
OuterLayout(a) ==
  << 0,
     a.kdfID \div 256, a.kdfID % 256,
     a.aeadID \div 256, a.aeadID % 256,
     a.id,
     Len(a.encodedKey) \div 256, Len(a.encodedKey) % 256 >>
    \o a.encodedKey
    \o << Len(a.payload) \div 256, Len(a.payload) % 256 >>
    \o a.payload

\* C8 as stated: with encodedKey and payload of at most 65535 bytes each the
\* encoder returns exactly 00, kdfID, aeadID, configId, the length-prefixed
\* key and the length-prefixed payload, 9 + len(encodedKey) + len(payload)
\* bytes in all, and no error; with either longer it returns an error and no
\* output.
C8_AsStated ==
  OuterDone =>
    IF Len(args.encodedKey) <= 65535 /\ Len(args.payload) <= 65535
      THEN /\ err = "nil"
           /\ ret = OuterLayout(args)
           /\ Len(ret) = 9 + Len(args.encodedKey) + Len(args.payload)
           /\ ret[1] = 0
      ELSE err # "nil" /\ ret = <<>>

\* C8 amended: the same, the output being 10 + len(encodedKey) +
\* len(payload) bytes long (1 + 2 + 2 + 1 + 2 + 2 bytes around the two
\* fields).
C8_OuterLayout ==
  OuterDone =>
    IF Len(args.encodedKey) <= 65535 /\ Len(args.payload) <= 65535
      THEN /\ err = "nil"
           /\ ret = OuterLayout(args)
           /\ Len(ret) = 10 + Len(args.encodedKey) + Len(args.payload)
           /\ ret[1] = 0
      ELSE err # "nil" /\ ret = <<>>

\* a 3-byte key and a 5-byte payload were encoded: 18 bytes, the first 0
C8_Witness ==
  /\ OuterDone /\ err = "nil"
  /\ Len(args.encodedKey) = 3 /\ Len(args.payload) = 5
  /\ Len(ret) = 18 /\ ret[1] = 0

(***************************************************************************)
(* Properties of validDNSName                                              *)
(***************************************************************************)
DNSDone == fn = "validDNSName" /\ pc = "done"

\* the characters of n: its bytes that do not continue a UTF-8 sequence
CharCount(n) == Cardinality({ i \in 1..Len(n) : ~(n[i] >= 128 /\ n[i] <= 191) })

IsLetterDigitHyphen(v) ==
  \/ v \in 48..57
  \/ v \in 65..90
  \/ v \in 97..122
  \/ v = 45

\* the rules of a valid name, on the name as written: the labels are the
\* runs between dots
NameRules(n) ==
  /\ CharCount(n) <= 253
  /\ \E i \in 1..Len(n) : n[i] = 46
  /\ n[1] # 46 /\ n[Len(n)] # 46
  /\ \A i \in 1..(Len(n) - 1) : ~(n[i] = 46 /\ n[i + 1] = 46)
  /\ \A i \in 1..Len(n) : n[i] = 46 \/ IsLetterDigitHyphen(n[i])
  /\ \A i \in 1..Len(n) :
       n[i] = 45 => /\ i # 1 /\ i # Len(n)
                    /\ n[i - 1] # 46 /\ n[i + 1] # 46

\* C10: validDNSName is true exactly when the name has at most 253
\* characters, at least two labels, no empty label, only ASCII letters,
\* digits and hyphens in its labels, and no label that begins or ends with
\* a hyphen; it is false for "-bad.example" and "nodot" and true for
\* "good-name.example".
C10_ValidDNSName ==
  DNSDone =>
    /\ ret = NameRules(name)
    /\ name = BadExample => ret = FALSE
    /\ name = NoDotExample => ret = FALSE
    /\ name = GoodExample => ret = TRUE

C10_Witness == DNSDone /\ name = GoodExample /\ ret = TRUE /\ li = 3

====
